---- MODULE Spec2Model ----
(***************************************************************************)
(* A model of src/src/main.rs: the SDL2 application shell of SuckaBunch.   *)
(* main() acquires the SDL context, the video subsystem, a window, a       *)
(* canvas and the event pump (each step unwrapped), then runs the          *)
(* 'running loop: clear, drain the events, set colour, clear, set colour,  *)
(* fill the rectangle, present, sleep.  The platform (SDL) is the          *)
(* environment: it appends events to the queue, and decides whether an     *)
(* initialisation step or a fill succeeds.                                  *)
(***************************************************************************)
EXTENDS Integers, Sequences, FiniteSets, TLC

VARIABLES
    pc,          \* position of main(): the statement it executes next
    live,        \* the resources main() currently owns
    drops,       \* per resource, how many times it was released
    diag,        \* the step whose unwrap() panicked, or "none"
    initErr,     \* the initialisation step the platform failed, or "none"
    queue,       \* the platform's event queue (filled by the environment)
    polled,      \* the events the current poll_iter() has returned so far
    drained,     \* whether the tick's finished drain returned any event
    drawColor,   \* the canvas' current draw colour
    canvas,      \* the back buffer, sampled at Points
    fillRes,     \* the result of the last fill_rect: "none", "Ok", "Err"
    presents,    \* number of present() calls (saturating at MaxFrames)
    sleeps,      \* number of sleeps since the last present (saturating)
    sleepDur,    \* the Duration passed to the last sleep
    ops,         \* the operations of the current tick, in order
    canvasB,     \* back buffer of the same loop with the first clear removed
    quitAt,      \* the phase in which the first quit request was queued, or "none"
    framesSince, \* frames presented since then (saturating)
    drainsSince  \* event drains begun since then (saturating)

vars == <<pc, live, drops, diag, initErr, queue, polled, drained,
          drawColor, canvas, fillRes, presents, sleeps, sleepDur, ops,
          canvasB, quitAt, framesSince, drainsSince>>

----------------------------------------------------------------------------
(* Bounds of the model *)

\* events polled plus events queued during one drain (bounds the environment)
MaxTickEvents == 3
\* the counters presents, sleeps, framesSince, drainsSince saturate here
MaxFrames == 2

----------------------------------------------------------------------------
(* Program constants *)

WindowWidth == 1280
WindowHeight == 720
NanosPerSec == 1000000000
FramesPerSec == 60

RGB(r, g, b) == <<r, g, b>>

\* Color::RGB(200, 200, 255)
BackgroundColor == RGB(200, 200, 255)

\* Color::RGB(255, 0, 0)
RectColor == RGB(255, 0, 0)

\* the draw colour of a freshly built renderer (SDL: black)
DefaultDrawColor == RGB(0, 0, 0)

\* the contents of a back buffer nothing has been drawn to since it was
\* created or presented (SDL leaves them unspecified)
Undefined == RGB(0 - 1, 0 - 1, 0 - 1)

\* Rect::new(100, 100, 200, 150)
RectNew(x, y, w, h) == [x |-> x, y |-> y, w |-> w, h |-> h]

rect == RectNew(100, 100, 200, 150)

\* the pixels the model samples: the window's corners and both sides of
\* every edge of the rectangle
Points ==
    { <<0, 0>>, <<WindowWidth - 1, WindowHeight - 1>>,
      <<99, 99>>, <<100, 99>>, <<99, 100>>, <<100, 100>>,
      <<299, 249>>, <<300, 249>>, <<299, 250>>, <<300, 250>> }

----------------------------------------------------------------------------
(* Events *)

Ev(t, k) == [type |-> t, keycode |-> k]

Events ==
    { Ev("Quit", "None"),
      Ev("KeyDown", "Escape"),
      Ev("KeyDown", "A"),
      Ev("KeyDown", "None"),
      Ev("KeyUp", "Escape") }

\* a mutant of the match arm: Escape is not matched
QuitArmNoEscape(e) == e.type = "Quit"

\* a mutant of the match arm: every key-down matches
QuitArmAnyKeyDown(e) == e.type = "Quit" \/ e.type = "KeyDown"

\* Event::Quit {..} | Event::KeyDown { keycode: Some(Keycode::Escape), .. }
QuitArm(e) ==
    \/ e.type = "Quit"
    \/ e.type = "KeyDown" /\ e.keycode = "Escape"

----------------------------------------------------------------------------
(* Canvas *)

\* canvas.clear(): the whole target takes the draw colour
Clear(color) == [p \in Points |-> color]

\* a mutant of the rectangle test: the far edges are included
HasPointInclusive(r, p) ==
    /\ p[1] >= r.x /\ p[1] <= r.x + r.w
    /\ p[2] >= r.y /\ p[2] <= r.y + r.h

\* the pixels a rectangle covers: x <= px < x + w, y <= py < y + h
HasPoint(r, p) ==
    /\ p[1] >= r.x /\ p[1] < r.x + r.w
    /\ p[2] >= r.y /\ p[2] < r.y + r.h

RectPoints(r) == { p \in Points : HasPoint(r, p) }

\* the target with the pixels of `painted` in the draw colour
Paint(c, painted, color) ==
    [p \in Points |-> IF p \in painted THEN color ELSE c[p]]

\* what a fill_rect may have painted: all of the rectangle when it succeeds,
\* any part of it but the whole when it fails
FillOutcomes(r, ok) ==
    IF ok THEN { RectPoints(r) }
    ELSE (SUBSET RectPoints(r)) \ { RectPoints(r) }

\* 1_000_000_000u32 / 60 (the literal is below 2^31: no wrap-around)
FrameDelayNanos == NanosPerSec \div FramesPerSec

\* Duration::new(secs, nanos): whole seconds of nanos carry into secs
DurationNew(secs, nanos) ==
    [secs |-> secs + (nanos \div NanosPerSec), nanos |-> nanos % NanosPerSec]

NoDuration == [secs |-> 0, nanos |-> 0]

----------------------------------------------------------------------------
(* Resources *)

Resources == {"sdl_context", "video_subsystem", "window", "canvas", "event_pump"}

Sat(n) == IF n < MaxFrames THEN n + 1 ELSE n

\* the resources of `rs` are released
Drop(rs) == [r \in Resources |-> IF r \in rs THEN drops[r] + 1 ELSE drops[r]]

InitPcs == {"sdl_init", "video", "window_build", "canvas_build", "event_pump"}

LoopPcs == {"clear", "poll", "set_bg", "clear_bg", "set_fg", "fill_rect",
            "present", "sleep"}

Init ==
    /\ pc = "sdl_init"
    /\ live = {}
    /\ drops = [r \in Resources |-> 0]
    /\ diag = "none"
    /\ initErr = "none"
    /\ queue = << >>
    /\ polled = << >>
    /\ drained = FALSE
    /\ drawColor = DefaultDrawColor
    /\ canvas = Clear(Undefined)
    /\ fillRes = "none"
    /\ presents = 0
    /\ sleeps = 0
    /\ sleepDur = NoDuration
    /\ ops = << >>
    /\ canvasB = Clear(Undefined)
    /\ quitAt = "none"
    /\ framesSince = 0
    /\ drainsSince = 0

resVars == <<live, drops, diag, initErr>>
evVars == <<queue, polled, drained>>
gfxVars == <<drawColor, canvas, fillRes, canvasB>>
paceVars == <<presents, sleeps, sleepDur>>
quitVars == <<quitAt, framesSince, drainsSince>>

----------------------------------------------------------------------------
(* Initialisation: lines 10-19 *)

\* a panic: the diagnostic names the step; `lost` was released before the
\* panic; an unwinding build releases what main() holds, an aborting one
\* releases nothing
Panic(step, lost) ==
    /\ pc' = "panicked"
    /\ diag' = step
    /\ \E unwind \in BOOLEAN :
          /\ drops' = Drop(lost \cup (IF unwind THEN live ELSE {}))
          /\ live' = IF unwind THEN {} ELSE live \ lost

\* a mutant of unwrap(): the error is dropped and main() goes on
UnwrapIgnoringErr(ok, step, got, lost, next) ==
    /\ pc' = next
    /\ live' = (live \ lost) \cup (IF ok THEN got ELSE {})
    /\ UNCHANGED <<drops, diag>>

\* .unwrap() on the result of an initialisation step: Ok yields the
\* resources `got` and main() goes on at `next`, Err panics
Unwrap(ok, step, got, lost, next) ==
    IF ok
      THEN /\ pc' = next
           /\ live' = (live \ lost) \cup got
           /\ UNCHANGED <<drops, diag>>
      ELSE Panic(step, lost)

\* one fallible initialisation step; the platform decides its outcome
InitStep(step, got, lost, next) ==
    /\ pc = step
    /\ \E ok \in BOOLEAN :
          /\ initErr' = (IF ok THEN initErr ELSE step)
          /\ Unwrap(ok, step, got, lost, next)
    /\ UNCHANGED <<evVars, gfxVars, paceVars, ops>>
    /\ UNCHANGED quitVars

\* let sdl_context = sdl2::init().unwrap();
SdlInit == InitStep("sdl_init", {"sdl_context"}, {}, "video")

\* let video_subsystem = sdl_context.video().unwrap();
Video == InitStep("video", {"video_subsystem"}, {}, "window_build")

\* let window = video_subsystem.window(..).position_centered().build().unwrap();
WindowBuild == InitStep("window_build", {"window"}, {}, "canvas_build")

\* let mut canvas = window.into_canvas().build().unwrap();
\* the window moves into the builder: the canvas owns it, or a failed build
\* releases it
CanvasBuild ==
    /\ pc = "canvas_build"
    /\ \E ok \in BOOLEAN :
          /\ initErr' = (IF ok THEN initErr ELSE "canvas_build")
          /\ IF ok
               THEN Unwrap(ok, "canvas_build", {"canvas"}, {}, "event_pump")
               ELSE Unwrap(ok, "canvas_build", {}, {"window"}, "event_pump")
    /\ UNCHANGED <<evVars, gfxVars, paceVars, ops>>
    /\ UNCHANGED quitVars

\* let mut event_pump = sdl_context.event_pump().unwrap();
EventPump == InitStep("event_pump", {"event_pump"}, {}, "clear")

----------------------------------------------------------------------------
(* The 'running loop: lines 21-45 *)

\* canvas.clear(); then the for loop creates event_pump.poll_iter()
ClearFirst ==
    /\ pc = "clear"
    /\ pc' = "poll"
    /\ canvas' = Clear(drawColor)
    /\ polled' = << >>
    /\ drained' = FALSE
    /\ ops' = <<"clear">>
    /\ drainsSince' = (IF quitAt = "none" THEN drainsSince ELSE Sat(drainsSince))
    /\ UNCHANGED <<resVars, queue, paceVars, quitAt, framesSince>>
    /\ UNCHANGED <<drawColor, fillRes, canvasB>>

\* a mutant of the drain: a quit request is remembered, the drain goes on to
\* the end of the queue and the loop is left only then
PollEventDrainAll ==
    /\ pc = "poll"
    /\ IF queue = << >>
         THEN /\ pc' = (IF \E i \in 1..Len(polled) : QuitArm(polled[i])
                          THEN "done" ELSE "set_bg")
              /\ polled' = polled
              /\ drained' = (polled # << >>)
              /\ ops' = Append(ops, "drained")
              /\ UNCHANGED queue
         ELSE /\ queue' = Tail(queue)
              /\ polled' = Append(polled, Head(queue))
              /\ pc' = "poll"
              /\ UNCHANGED <<ops, drained>>
    /\ UNCHANGED <<resVars, gfxVars, paceVars, quitVars>>

\* a mutant of the drain: `break` without the label leaves the for loop only
PollEventBreakInner ==
    /\ pc = "poll"
    /\ IF queue = << >>
         THEN /\ pc' = "set_bg"
              /\ polled' = << >>
              /\ drained' = (polled # << >>)
              /\ ops' = Append(ops, "drained")
              /\ UNCHANGED queue
         ELSE /\ queue' = Tail(queue)
              /\ IF QuitArm(Head(queue))
                   THEN /\ pc' = "set_bg"
                        /\ polled' = << >>
                        /\ drained' = TRUE
                        /\ ops' = Append(ops, "drained")
                   ELSE /\ pc' = "poll"
                        /\ polled' = Append(polled, Head(queue))
                        /\ UNCHANGED <<ops, drained>>
    /\ UNCHANGED <<resVars, gfxVars, paceVars, quitVars>>

\* one turn of `for event in event_pump.poll_iter()`: the iterator returns
\* the next queued event, or ends the for loop when none is queued; the match
\* breaks out of 'running on its first arm and ignores every other event
PollEvent ==
    /\ pc = "poll"
    /\ IF queue = << >>
         THEN /\ pc' = "set_bg"
              /\ polled' = << >>
              /\ drained' = (polled # << >>)
              /\ ops' = Append(ops, "drained")
              /\ UNCHANGED queue
         ELSE /\ queue' = Tail(queue)
              /\ polled' = Append(polled, Head(queue))
              /\ pc' = (IF QuitArm(Head(queue)) THEN "done" ELSE "poll")
              /\ UNCHANGED <<ops, drained>>
    /\ UNCHANGED <<resVars, gfxVars, paceVars, quitVars>>

\* canvas.set_draw_color(Color::RGB(200, 200, 255));
SetBackground ==
    /\ pc = "set_bg"
    /\ pc' = "clear_bg"
    /\ drawColor' = BackgroundColor
    /\ ops' = Append(ops, "set_draw_color")
    /\ UNCHANGED <<resVars, evVars, paceVars, quitVars>>
    /\ UNCHANGED <<canvas, fillRes, canvasB>>

\* a mutant of the second clear: it is left out
ClearBackgroundSkipped ==
    /\ pc = "clear_bg"
    /\ pc' = "set_fg"
    /\ ops' = Append(ops, "clear")
    /\ UNCHANGED <<resVars, evVars, paceVars, quitVars, gfxVars>>

\* canvas.clear();
ClearBackground ==
    /\ pc = "clear_bg"
    /\ pc' = "set_fg"
    /\ canvas' = Clear(drawColor)
    /\ canvasB' = Clear(drawColor)
    /\ ops' = Append(ops, "clear")
    /\ UNCHANGED <<resVars, evVars, paceVars, quitVars>>
    /\ UNCHANGED <<drawColor, fillRes>>

\* canvas.set_draw_color(Color::RGB(255, 0, 0));
SetForeground ==
    /\ pc = "set_fg"
    /\ pc' = "fill_rect"
    /\ drawColor' = RectColor
    /\ ops' = Append(ops, "set_draw_color")
    /\ UNCHANGED <<resVars, evVars, paceVars, quitVars>>
    /\ UNCHANGED <<canvas, fillRes, canvasB>>

\* a mutant of the fill: the result is unwrapped, so an Err panics
FillRectUnwrapped ==
    /\ pc = "fill_rect"
    /\ \E ok \in BOOLEAN :
          /\ fillRes' = (IF ok THEN "Ok" ELSE "Err")
          /\ \E painted \in FillOutcomes(rect, ok) :
                /\ canvas' = Paint(canvas, painted, drawColor)
                /\ canvasB' = Paint(canvasB, painted, drawColor)
          /\ IF ok
               THEN /\ pc' = "present"
                    /\ UNCHANGED <<live, drops, diag>>
               ELSE Panic("fill_rect", {})
    /\ ops' = Append(ops, "fill_rect")
    /\ UNCHANGED <<initErr, evVars, paceVars, quitVars>>
    /\ UNCHANGED drawColor

\* let rect = Rect::new(100, 100, 200, 150); let _ = canvas.fill_rect(rect);
\* the platform decides whether the fill succeeds; the result is discarded
FillRect ==
    /\ pc = "fill_rect"
    /\ pc' = "present"
    /\ \E ok \in BOOLEAN :
          /\ fillRes' = (IF ok THEN "Ok" ELSE "Err")
          /\ \E painted \in FillOutcomes(rect, ok) :
                /\ canvas' = Paint(canvas, painted, drawColor)
                /\ canvasB' = Paint(canvasB, painted, drawColor)
    /\ ops' = Append(ops, "fill_rect")
    /\ UNCHANGED <<resVars, evVars, paceVars, quitVars>>
    /\ UNCHANGED drawColor

\* canvas.present(); the back buffer goes to the screen, and what the back
\* buffer holds afterwards is the platform's choice: kept, or unspecified
Present ==
    /\ pc = "present"
    /\ pc' = "sleep"
    /\ \E kept \in BOOLEAN :
          /\ canvas' = (IF kept THEN canvas ELSE Clear(Undefined))
          /\ canvasB' = (IF kept THEN canvasB ELSE Clear(Undefined))
    /\ presents' = Sat(presents)
    /\ sleeps' = 0
    /\ framesSince' = (IF quitAt = "none" THEN framesSince ELSE Sat(framesSince))
    /\ ops' = Append(ops, "present")
    /\ UNCHANGED <<resVars, evVars, drawColor, fillRes, sleepDur, quitAt, drainsSince>>

\* a mutant of the pacing: the loop does not sleep
SleepSkipped ==
    /\ pc = "sleep"
    /\ pc' = "clear"
    /\ ops' = Append(ops, "sleep")
    /\ UNCHANGED <<resVars, evVars, gfxVars, quitVars, paceVars>>

\* ::std::thread::sleep(Duration::new(0, 1_000_000_000u32 / 60));
Sleep ==
    /\ pc = "sleep"
    /\ pc' = "clear"
    /\ sleeps' = Sat(sleeps)
    /\ sleepDur' = DurationNew(0, FrameDelayNanos)
    /\ ops' = Append(ops, "sleep")
    /\ UNCHANGED <<resVars, evVars, gfxVars, quitVars, presents>>

\* a mutant of the end of main(): the canvas is leaked (mem::forget)
ExitLeaking ==
    /\ pc = "done"
    /\ pc' = "exited"
    /\ drops' = Drop(live \ {"canvas", "window"})
    /\ live' = {}
    /\ UNCHANGED <<diag, initErr, evVars, gfxVars, paceVars, quitVars, ops>>

\* break 'running leaves the loop and main() returns: event_pump, canvas
\* (with its window), video_subsystem and sdl_context go out of scope
Exit ==
    /\ pc = "done"
    /\ pc' = "exited"
    /\ drops' = Drop(live)
    /\ live' = {}
    /\ UNCHANGED <<diag, initErr, evVars, gfxVars, paceVars, quitVars, ops>>

----------------------------------------------------------------------------
(* The environment *)

\* the request the claims call a quit request: a Quit event or an Escape
\* key-down
IsQuitRequest(e) == e \in { Ev("Quit", "None"), Ev("KeyDown", "Escape") }

\* where main() is when an event is queued: initialising, between a present
\* and the end of the next drain, between the drain and the present, or past
\* the loop
Phase ==
    CASE pc \in InitPcs -> "init"
      [] pc \in {"sleep", "clear", "poll"} -> "after_present"
      [] pc \in {"set_bg", "clear_bg", "set_fg", "fill_rect", "present"} -> "before_present"
      [] OTHER -> "past_loop"

\* the platform queues an event
Enqueue ==
    /\ pc \notin {"panicked", "exited"}
    /\ Len(queue) + Len(polled) < MaxTickEvents
    /\ \E e \in Events :
          /\ queue' = Append(queue, e)
          /\ quitAt' = (IF IsQuitRequest(e) /\ quitAt = "none" THEN Phase ELSE quitAt)
    /\ UNCHANGED <<pc, resVars, polled, drained, gfxVars, paceVars, ops>>
    /\ UNCHANGED <<framesSince, drainsSince>>

Program ==
    \/ SdlInit
    \/ Video
    \/ WindowBuild
    \/ CanvasBuild
    \/ EventPump
    \/ ClearFirst
    \/ PollEvent
    \/ SetBackground
    \/ ClearBackground
    \/ SetForeground
    \/ FillRect
    \/ Present
    \/ Sleep
    \/ Exit

Next == Program \/ Enqueue

Spec == Init /\ [][Next]_vars

\* main() is one thread that always runs; every call returns
FairSpec == Spec /\ WF_vars(Program)

----------------------------------------------------------------------------
(* Properties *)

Running == pc \in LoopPcs

Terminated == pc \in {"done", "exited"}

HasQuitRequest(s) == \E i \in 1..Len(s) : IsQuitRequest(s[i])

\* the position of the first quit request of s (0 when it holds none)
FirstQuit(s) ==
    IF HasQuitRequest(s)
      THEN CHOOSE i \in 1..Len(s) :
              /\ IsQuitRequest(s[i])
              /\ \A j \in 1..(i - 1) : ~IsQuitRequest(s[j])
      ELSE 0

IsPrefix(s, t) == Len(s) <= Len(t) /\ SubSeq(t, 1, Len(s)) = s

\* the operations of a tick that was not terminated, in order
FullTick ==
    <<"clear", "drained", "set_draw_color", "clear", "set_draw_color",
      "fill_rect", "present", "sleep">>

\* background RGB(200,200,255) everywhere but the rectangle x=100, y=100,
\* w=200, h=150 in RGB(255,0,0)
ExpectedFrame ==
    [p \in Points |->
        IF p[1] \in 100..299 /\ p[2] \in 100..249
          THEN <<255, 0, 0>> ELSE <<200, 200, 255>>]

\* C1: whenever the event a drain returned at some position is a Quit or an
\* Escape key-down, the loop is terminated, and that position is the last one
\* the drain returned, whatever came before it and whatever is still queued.
C1_QuitRequestTerminates ==
    \A i \in 1..Len(polled) :
        IsQuitRequest(polled[i]) => Terminated /\ i = Len(polled)

C1_Witness ==
    /\ Terminated
    /\ Len(polled) = 2
    /\ ~IsQuitRequest(polled[1])
    /\ polled[2] = Ev("KeyDown", "Escape")
    /\ queue # << >>

\* C2: the loop leaves Running only by a poll that returns a Quit or an Escape
\* key-down; a drain that ends without one goes on to set the colour, and
\* every tick that reaches its end has cleared, filled, presented and slept.
C2_OnlyQuitRequestLeavesRunning ==
    /\ [][(Running /\ ~Running') =>
             /\ pc = "poll"
             /\ queue # << >>
             /\ IsQuitRequest(Head(queue))
             /\ pc' = "done"]_vars
    /\ [][(pc = "poll" /\ (pc' # pc \/ polled' # polled)
                /\ ~(queue # << >> /\ IsQuitRequest(Head(queue)))) =>
             /\ Running'
             /\ (queue = << >> => pc' = "set_bg" /\ ops' = <<"clear", "drained">>)]_vars
    /\ [](pc = "clear" => ops \in {<< >>, FullTick})

C2_Witness ==
    /\ pc = "clear"
    /\ ops = FullTick
    /\ drained
    /\ fillRes = "Err"

\* C3: the drain stops at the first quit request: when the loop is terminated
\* the number of events polled is the position of the first quit request among
\* the events polled and queued, and from then on nothing is polled: the
\* queue only grows at its end.
C3_DrainStopsAtQuitRequest ==
    /\ [](Terminated =>
             /\ polled # << >>
             /\ FirstQuit(polled \o queue) = Len(polled))
    /\ [][Terminated => (polled' = polled /\ IsPrefix(queue, queue'))]_vars

C3_Witness ==
    /\ pc = "exited"
    /\ Len(polled) = 2
    /\ Len(queue) = 1
    /\ IsQuitRequest(queue[1])

\* C4: once the loop is terminated nothing is presented, cleared, filled or
\* slept (the terminating tick did its first clear only), and the window,
\* canvas and event pump are released exactly once, never while Running.
C4_NoFrameAfterTermination ==
    /\ [][Terminated =>
             /\ presents' = presents
             /\ sleeps' = sleeps
             /\ ops' = ops
             /\ canvas' = canvas]_vars
    /\ [](Terminated => ops = <<"clear">>)
    /\ [](\A r \in {"window", "canvas", "event_pump"} :
             /\ drops[r] <= 1
             /\ (Running => (drops[r] = 0 /\ r \in live)))
    /\ [](pc = "exited" =>
             /\ live = {}
             /\ \A r \in Resources : drops[r] = 1)

C4_Witness ==
    /\ pc = "exited"
    /\ presents = MaxFrames
    /\ drops["canvas"] = 1
    /\ drops["event_pump"] = 1

\* C5 as claimed: at every present call the canvas holds the expected frame.
C5_EveryFrameIdentical ==
    pc = "present" => canvas = ExpectedFrame

\* C5 as amended: at every present call that follows a fill that succeeded
\* the canvas holds the expected frame (so any two such frames are identical).
C5_FramesOfSuccessfulFills ==
    (pc = "present" /\ fillRes = "Ok") => canvas = ExpectedFrame

C5_Witness ==
    /\ pc = "present"
    /\ fillRes = "Ok"
    /\ presents = MaxFrames
    /\ canvas = ExpectedFrame

\* C6: a failed fill is discarded: the fill step always goes on to present
\* with the draw colour, the diagnostic and the resources untouched, the tick
\* completes, and the next tick starts from the same canvas and colour.
C6_FailedFillDiscarded ==
    /\ [][(pc = "fill_rect" /\ pc' # pc) =>
             /\ pc' = "present"
             /\ drawColor' = drawColor
             /\ diag' = diag
             /\ live' = live
             /\ drops' = drops]_vars
    /\ [](fillRes = "Err" => diag = "none")
    /\ []((fillRes = "Err" /\ pc = "clear") => ops = FullTick)
    /\ []((fillRes = "Err" /\ pc = "poll") =>
             /\ drawColor = <<255, 0, 0>>
             /\ canvas = [p \in Points |-> <<255, 0, 0>>]
             /\ {"canvas", "event_pump"} \subseteq live)

C6_Witness ==
    /\ fillRes = "Err"
    /\ pc = "poll"
    /\ presents = MaxFrames

\* the resources acquired before an initialisation step
AcquiredBefore(step) ==
    CASE step = "sdl_init" -> {}
      [] step = "video" -> {"sdl_context"}
      [] step = "window_build" -> {"sdl_context", "video_subsystem"}
      [] step = "canvas_build" -> {"sdl_context", "video_subsystem", "window"}
      [] OTHER -> {"sdl_context", "video_subsystem", "window", "canvas"}

\* C7: when an initialisation step fails main() panics at that step and stays
\* there: no later step has acquired anything, the loop was never entered, no
\* event was polled and no frame presented.
C7_InitFailureAborts ==
    /\ [](initErr # "none" =>
             /\ pc = "panicked"
             /\ diag = initErr
             /\ ops = << >>
             /\ polled = << >>
             /\ presents = 0
             /\ (live \cup {r \in Resources : drops[r] > 0}) \subseteq AcquiredBefore(initErr))
    /\ [][pc = "panicked" => pc' = "panicked"]_vars

C7_Witness ==
    /\ initErr = "canvas_build"
    /\ pc = "panicked"
    /\ queue # << >>

\* C8: a present that is not the first comes after exactly one sleep since
\* the present before it, a sleep directly follows a present, and every sleep
\* asks for 0 s and 16,666,666 ns.
C8_OneSleepBetweenPresents ==
    /\ [][(pc = "present" /\ pc' # pc /\ presents > 0) => sleeps = 1]_vars
    /\ [][(pc = "present" /\ pc' # pc) => pc' = "sleep"]_vars
    /\ [][sleeps' > sleeps => ops[Len(ops)] = "present"]_vars
    /\ [][(pc = "sleep" /\ pc' # pc) =>
             /\ sleeps' = 1
             /\ sleepDur' = [secs |-> 0, nanos |-> 16666666]]_vars
    /\ [](sleeps > 0 =>
             /\ sleepDur = [secs |-> 0, nanos |-> 16666666]
             /\ sleepDur.nanos \div 65536 < 65536)

C8_Witness ==
    /\ pc = "present"
    /\ presents = 1
    /\ sleeps = 1
    /\ sleepDur.nanos = 16666666

\* C9: at every present call the canvas holds what the canvas of the loop
\* without its first clear holds.
C9_FirstClearNotVisible ==
    pc = "present" => canvas = canvasB

C9_Witness ==
    /\ pc = "poll"
    /\ presents = MaxFrames
    /\ canvas = [p \in Points |-> <<255, 0, 0>>]
    /\ canvas # canvasB
    /\ canvasB = ExpectedFrame

QuitPending == Running /\ HasQuitRequest(queue)

\* C10: a quit request queued while the loop is Running leads to termination,
\* at most one drain begins and at most one frame is presented after it was
\* queued, and no frame when it was queued after the tick's present.
C10_QuitRequestBoundedResponse ==
    /\ QuitPending ~> Terminated
    /\ []((quitAt \in {"after_present", "before_present"}) =>
             (framesSince <= 1 /\ drainsSince <= 1))
    /\ []((quitAt = "after_present") => framesSince = 0)

C10_Witness ==
    /\ Terminated
    /\ quitAt = "before_present"
    /\ framesSince = 1
    /\ drainsSince = 1
    /\ Len(polled) = MaxTickEvents

====
